---- MODULE Spec2Model ----
(***************************************************************************)
(* Model of Scripts/Package.py, the RetroFE packaging script.              *)
(*                                                                         *)
(* A file system is a function from paths to entries.  A path is a         *)
(* sequence of names; the paths of the output tree are relative to         *)
(* output_path (Artifacts/<os>/RetroFE), the paths of an asset tree are    *)
(* relative to common_path or os_path.  The empty function is an absent    *)
(* tree, and the path <<>> is the root directory of a tree.  The script    *)
(* is one linear run; pc is the statement the run is at, and the           *)
(* recursion of copytree is unfolded with an explicit stack of pending     *)
(* calls, so that every intermediate file system is a state.               *)
(***************************************************************************)
EXTENDS Naturals, Sequences, FiniteSets, TLC

VARIABLES
  os,        \* args.os
  build,     \* args.build
  clean,     \* args.clean
  common,    \* the tree at common_path
  ospkg,     \* the tree at os_path
  release,   \* the compiled artifacts that exist in RetroFE/Build
  out,       \* the tree at output_path
  out0,      \* the tree at output_path when the run started
  pc,        \* the statement the run is at
  stack,     \* pending copytree calls, innermost first
  cur,       \* the outermost copytree call in progress or just returned
  dirs,      \* the collections still to visit in the loop of line 75
  exit,      \* "running", "ok" (status 0) or "error" (uncaught exception)
  failedAt,  \* the statement that raised, "" when none did
  stdout     \* whether the mac "Neither ... found" line was printed

vars == <<os, build, clean, common, ospkg, release, out, out0, pc, stack, cur,
          dirs, exit, failedAt, stdout>>

---------------------------------------------------------------------------
(* Bounds of the model. *)

\* the largest number of entries of the two asset trees together
MaxAssets == 3

---------------------------------------------------------------------------
(* Paths and entries. *)

Root == <<>>

Parent(p) == SubSeq(p, 1, Len(p) - 1)

IsPrefix(p, q) == Len(p) <= Len(q) /\ SubSeq(q, 1, Len(p)) = p

\* os.path.join(p, name)
Join(p, name) == Append(p, name)

DirEntry == [kind |-> "dir", bytes |-> <<>>]

FileEntry(origin, p) == [kind |-> "file", bytes |-> <<origin, p>>]

\* os.path.exists
exists(fs, p) == p \in DOMAIN fs

\* os.path.isdir
isdir(fs, p) == p \in DOMAIN fs /\ fs[p].kind = "dir"

isfile(fs, p) == p \in DOMAIN fs /\ fs[p].kind = "file"

\* os.listdir, as a set of names
listdir(fs, p) == { q[Len(q)] : q \in { r \in DOMAIN fs : r # Root /\ Parent(r) = p } }

Put(fs, p, e) == [q \in DOMAIN fs \cup {p} |-> IF q = p THEN e ELSE fs[q]]

\* what is left of fs after removing p and everything below it
Without(fs, p) == [q \in { r \in DOMAIN fs : ~IsPrefix(p, r) } |-> fs[q]]

\* the tree below p, with paths relative to p
Subtree(fs, p) ==
  [q \in { SubSeq(r, Len(p) + 1, Len(r)) : r \in { s \in DOMAIN fs : IsPrefix(p, s) } }
     |-> fs[p \o q]]

Ok(fs) == [err |-> "", fs |-> fs]

Raise(e, fs) == [err |-> e, fs |-> fs]

(* Every entry has its ancestors, and they are directories. *)
WellFormed(fs) ==
  \A p \in DOMAIN fs : p # Root => isdir(fs, Parent(p))

---------------------------------------------------------------------------
(* The operating system calls the script makes. *)

\* os.mkdir: one directory, whose parent must be a directory.  The parent
\* of output_path is outside the model and taken to be creatable.
mkdir(fs, p) ==
  IF exists(fs, p) THEN Raise("EEXIST", fs)
  ELSE IF p # Root /\ ~exists(fs, Parent(p)) THEN Raise("ENOENT", fs)
  ELSE IF p # Root /\ ~isdir(fs, Parent(p)) THEN Raise("ENOTDIR", fs)
  ELSE Ok(Put(fs, p, DirEntry))

\* os.makedirs(path): creates the missing ancestors, then the leaf; the
\* FileExistsError of an ancestor is passed over, every other error and
\* the leaf's own error are raised.
RECURSIVE makedirs(_, _)
makedirs(fs, p) ==
  IF p # Root /\ ~exists(fs, Parent(p))
  THEN LET h == makedirs(fs, Parent(p))
       IN  IF h.err \notin {"", "EEXIST"} THEN h ELSE mkdir(h.fs, p)
  ELSE mkdir(fs, p)

\* shutil.copyfile(src, dst) of the file entry e
copyfile(e, fs, dst) ==
  IF isdir(fs, dst) THEN Raise("EISDIR", fs)
  ELSE IF dst # Root /\ ~exists(fs, Parent(dst)) THEN Raise("ENOENT", fs)
  ELSE IF dst # Root /\ ~isdir(fs, Parent(dst)) THEN Raise("ENOTDIR", fs)
  ELSE Ok(Put(fs, dst, e))

\* shutil.copy(src, dst): into dst when dst is a directory, onto dst otherwise
copy(e, name, fs, dst) ==
  IF isdir(fs, dst) THEN copyfile(e, fs, Join(dst, name)) ELSE copyfile(e, fs, dst)

\* shutil.rmtree(path)
rmtree(fs, p) ==
  IF ~exists(fs, p) THEN Raise("ENOENT", fs)
  ELSE IF ~isdir(fs, p) THEN Raise("ENOTDIR", fs)
  ELSE Ok(Without(fs, p))

---------------------------------------------------------------------------
(* mkdir_p, lines 19-26. *)

\* a variant that makes the leaf alone, as os.mkdir without the ancestors
mkdir_p_leaf_only(fs, path) ==
  IF exists(fs, path) THEN Ok(fs) ELSE Ok(Put(fs, path, DirEntry))

mkdir_p(fs, path) ==
  LET r == makedirs(fs, path)
  IN  IF r.err = "EEXIST" THEN Ok(r.fs) ELSE r

---------------------------------------------------------------------------
(* The inputs of a run: the arguments, the asset trees, the artifacts. *)

OsChoices == {"windows", "linux", "mac"}

\* --build takes any string; "other" stands for every string the script
\* does not compare against
BuildValues == {"full", "core", "engine", "layout", "none", "other"}

ExeBuilds == {"full", "core", "engine"}

\* the builds that read the asset trees (lines 67 and 92); for the others
\* the empty trees stand for every pair of asset trees
AssetBuilds == {"full", "layout"}

\* the entries an asset tree may hold as directories
MayDir ==
  { <<"collections">>, <<"collections", "mario">>, <<"collections", "_hidden">>,
    <<"layouts">>, <<"layouts", "x">>, <<"RetroFE.app">>, <<"retrofe">> }

\* the entries an asset tree may hold as regular files
MayFile ==
  { <<"collections", "mario", "roms">>, <<"meta">>, <<"layouts", "x">>,
    <<"RetroFE.app">>, <<"RetroFE.app", "old">>, <<"retrofe">> }

MkTree(origin, D, F) ==
  [p \in D \cup {Root} |-> IF p \in F THEN FileEntry(origin, p) ELSE DirEntry]

\* the asset trees of at most n entries below the root
AssetTrees(origin, n) ==
  { MkTree(origin, D, F) :
      <<D, F>> \in
        { df \in (SUBSET (MayDir \cup MayFile)) \X (SUBSET MayFile) :
            /\ Cardinality(df[1]) <= n
            /\ df[2] \subseteq df[1]
            /\ (df[1] \ df[2]) \subseteq MayDir
            /\ \A p \in df[1] :
                 Parent(p) = Root \/ (Parent(p) \in df[1] /\ Parent(p) \notin df[2]) } }

Entries(tree) == Cardinality(DOMAIN tree) - 1

\* the pairs of a common and an OS asset tree a run may start from
AssetPairs ==
  { pair \in AssetTrees("common", MaxAssets) \X AssetTrees("os", MaxAssets) :
      Entries(pair[1]) + Entries(pair[2]) <= MaxAssets }

EmptyPair == <<MkTree("common", {}, {}), MkTree("os", {}, {})>>

Absent == [p \in {} |-> DirEntry]

\* what an earlier run may have left at output_path
OldOutput ==
  MkTree("old", { <<"layouts">>, <<"layouts", "x">>, <<"RetroFE.app">>,
                  <<"RetroFE.app", "old">> },
                { <<"layouts", "x">>, <<"RetroFE.app", "old">> })

\* RetroFE/Build/Release/RetroFE.app, when it was built
AppBundle ==
  MkTree("app", { <<"Contents">>, <<"Contents", "retrofe">> },
                { <<"Contents", "retrofe">> })

\* the name of the bare executable: retrofe.exe (line 112), retrofe (125, 132)
ExeName(o) == IF o = "windows" THEN "retrofe.exe" ELSE "retrofe"

ExeFile(o) == FileEntry("build", <<ExeName(o)>>)

\* the artifacts the placement step of the OS looks for
Artifacts(o) == IF o = "mac" THEN {"exe", "app"} ELSE {"exe"}

\* str.startswith('_'), on the names of the model
StartsWithUnderscore(name) == name \in {"_hidden"}

NoFrame == [tree |-> "", src |-> Root, dst |-> Root]

Init ==
  /\ os \in OsChoices
  /\ build \in BuildValues
  /\ clean \in BOOLEAN
  /\ \E pair \in (IF build \in AssetBuilds THEN AssetPairs ELSE {EmptyPair}) :
       common = pair[1] /\ ospkg = pair[2]
  /\ release \in SUBSET Artifacts(os)
  /\ out \in {Absent, OldOutput}
  /\ out0 = out
  /\ pc = "clean"
  /\ stack = <<>>
  /\ cur = NoFrame
  /\ dirs = {}
  /\ exit = "running"
  /\ failedAt = ""
  /\ stdout = FALSE

---------------------------------------------------------------------------
(* The run. *)

SrcTree(t) == IF t = "common" THEN common ELSE ospkg

\* the orders in which os.listdir may return the names S
Orders(S) ==
  { s \in [1..Cardinality(S) -> S] : \A i, j \in 1..Cardinality(S) : s[i] = s[j] => i = j }

\* an uncaught exception: the traceback names the statement, the status is non-zero
Fail(fs, at) ==
  /\ out' = fs
  /\ pc' = "exit"
  /\ exit' = "error"
  /\ failedAt' = at
  /\ stack' = <<>>
  /\ dirs' = {}

\* hasattr(args, 'clean'), line 60: argparse sets the attribute of a
\* store_true option whether or not the flag was given (default False)
HasAttrClean == TRUE

\* lines 60-61
Clean ==
  /\ pc = "clean"
  /\ IF exists(out, Root) /\ HasAttrClean
     THEN LET r == rmtree(out, Root)
          IN  IF r.err # "" THEN Fail(r.fs, "clean") /\ UNCHANGED <<cur, stdout>>
              ELSE /\ out' = r.fs
                   /\ pc' = "ensure"
                   /\ UNCHANGED <<stack, cur, dirs, exit, failedAt, stdout>>
     ELSE /\ pc' = "ensure"
          /\ UNCHANGED <<out, stack, cur, dirs, exit, failedAt, stdout>>
  /\ UNCHANGED <<os, build, clean, common, ospkg, release, out0>>

\* lines 64-65
EnsureOutput ==
  /\ pc = "ensure"
  /\ IF build # "none" /\ ~exists(out, Root)
     THEN LET r == makedirs(out, Root)
          IN  IF r.err # "" THEN Fail(r.fs, "ensure") /\ UNCHANGED <<cur, stdout>>
              ELSE /\ out' = r.fs
                   /\ pc' = "branch"
                   /\ UNCHANGED <<stack, cur, dirs, exit, failedAt, stdout>>
     ELSE /\ pc' = "branch"
          /\ UNCHANGED <<out, stack, cur, dirs, exit, failedAt, stdout>>
  /\ UNCHANGED <<os, build, clean, common, ospkg, release, out0>>

\* a call copytree(src, dst) from the script: the call is pending
Call(t, src, dst, at) ==
  /\ cur' = [tree |-> t, src |-> src, dst |-> dst]
  /\ stack' = <<[tree |-> t, src |-> src, dst |-> dst]>>
  /\ pc' = at

\* the outermost copytree call has returned
Returned(at) == pc = at /\ stack = <<>>

\* a variant of copytree without lines 10-11
ensure_dst_skipped(fs, dst) == Ok(fs)

\* lines 10-11
ensure_dst(fs, dst) == IF ~exists(fs, dst) THEN mkdir_p(fs, dst) ELSE Ok(fs)

\* copytree, lines 8-17: the body of the innermost pending call
copytree ==
  /\ stack # <<>>
  /\ LET f == Head(stack)
         t == SrcTree(f.tree)
     IN  IF isdir(t, f.src)
         THEN LET r == ensure_dst(out, f.dst)
              IN  IF r.err # "" THEN Fail(r.fs, pc)
                  ELSE /\ out' = r.fs
                       /\ \E names \in Orders(listdir(t, f.src)) :
                            stack' = [i \in 1..Len(names) |->
                                        [tree |-> f.tree,
                                         src |-> Join(f.src, names[i]),
                                         dst |-> Join(f.dst, names[i])]]
                                     \o Tail(stack)
                       /\ UNCHANGED <<pc, dirs, exit, failedAt>>
         ELSE LET r == IF ~exists(t, f.src) THEN Raise("ENOENT", out)
                       ELSE copyfile(t[f.src], out, f.dst)
              IN  IF r.err # "" THEN Fail(r.fs, pc)
                  ELSE /\ out' = r.fs
                       /\ stack' = Tail(stack)
                       /\ UNCHANGED <<pc, dirs, exit, failedAt>>
  /\ UNCHANGED <<os, build, clean, common, ospkg, release, out0, cur, stdout>>

\* a variant with lines 69 and 70 exchanged
asset_order_os_first == <<"os", "common">>

\* the trees copied into the output, in the order of lines 69 and 70
asset_order == <<"common", "os">>

\* lines 67-69
FullCopyCommon ==
  /\ pc = "branch"
  /\ build = "full"
  /\ Call(asset_order[1], Root, Root, "copy_common")
  /\ UNCHANGED <<os, build, clean, common, ospkg, release, out0, out, dirs, exit,
                 failedAt, stdout>>

\* line 70
FullCopyOs ==
  /\ Returned("copy_common")
  /\ Call(asset_order[2], Root, Root, "copy_os")
  /\ UNCHANGED <<os, build, clean, common, ospkg, release, out0, out, dirs, exit,
                 failedAt, stdout>>

\* collection_path, line 68
collection_path == <<"collections">>

\* dirs_to_create, lines 80-86
dirs_to_create ==
  << <<"roms">>, <<"medium_artwork">>, <<"medium_artwork", "logo">>,
     <<"medium_artwork", "video">>, <<"system_artwork">> >>

\* the loop of lines 89-90: stops at the first mkdir_p that raises
RECURSIVE CreateDirs(_, _, _)
CreateDirs(fs, base, subdirs) ==
  IF subdirs = <<>> THEN Ok(fs)
  ELSE LET r == mkdir_p(fs, base \o Head(subdirs))
       IN  IF r.err # "" THEN r ELSE CreateDirs(r.fs, base, Tail(subdirs))

\* line 72
FullMamelist ==
  /\ Returned("copy_os")
  /\ LET r == mkdir_p(out, <<"meta", "mamelist">>)
     IN  IF r.err # "" THEN Fail(r.fs, "mamelist")
         ELSE /\ out' = r.fs
              /\ pc' = "listdir"
              /\ UNCHANGED <<stack, dirs, exit, failedAt>>
  /\ UNCHANGED <<os, build, clean, common, ospkg, release, out0, cur, stdout>>

\* a variant in which a missing directory lists as empty
can_listdir_always(fs, p) == TRUE

\* whether os.listdir(p) returns: p must be a directory
can_listdir(fs, p) == isdir(fs, p)

\* line 74
FullListdir ==
  /\ pc = "listdir"
  /\ IF ~can_listdir(out, collection_path) THEN Fail(out, "listdir")
     ELSE /\ dirs' = { d \in listdir(out, collection_path) :
                         isdir(out, Join(collection_path, d)) }
          /\ pc' = IF dirs' = {} THEN "place" ELSE "scaffold"
          /\ UNCHANGED <<out, stack, exit, failedAt>>
  /\ UNCHANGED <<os, build, clean, common, ospkg, release, out0, cur, stdout>>

\* lines 75-90: one iteration of the loop over the collections
FullScaffold ==
  /\ pc = "scaffold"
  /\ \E collection \in dirs :
       LET r == IF ~StartsWithUnderscore(collection)
                THEN CreateDirs(out, Join(collection_path, collection), dirs_to_create)
                ELSE Ok(out)
       IN  IF r.err # "" THEN Fail(r.fs, "scaffold")
           ELSE /\ out' = r.fs
                /\ dirs' = dirs \ {collection}
                /\ pc' = IF dirs' = {} THEN "place" ELSE "scaffold"
                /\ UNCHANGED <<stack, exit, failedAt>>
  /\ UNCHANGED <<os, build, clean, common, ospkg, release, out0, cur, stdout>>

\* layout_dest_path, layout_common_path and layout_os_path, lines 93-95,
\* each relative to its tree
layout_path == <<"layouts">>

\* lines 92-98
LayoutDest ==
  /\ pc = "branch"
  /\ build = "layout"
  /\ LET r == IF ~exists(out, layout_path) THEN makedirs(out, layout_path) ELSE Ok(out)
     IN  IF r.err # "" THEN Fail(r.fs, "layout_dest")
         ELSE /\ out' = r.fs
              /\ pc' = "layout_common"
              /\ UNCHANGED <<stack, dirs, exit, failedAt>>
  /\ UNCHANGED <<os, build, clean, common, ospkg, release, out0, cur, stdout>>

\* a variant without the tests of lines 100 and 103
layout_present_always(tree) == TRUE

\* os.path.exists(layout_common_path), os.path.exists(layout_os_path),
\* lines 100 and 103
layout_present(tree) == exists(tree, layout_path)

\* os.path.exists(layout_common_path), line 100
LayoutCommonPresent == layout_present(common)

\* os.path.exists(layout_os_path), line 103
LayoutOsPresent == layout_present(ospkg)

\* lines 100-101
LayoutCommon ==
  /\ pc = "layout_common"
  /\ IF LayoutCommonPresent
     THEN Call("common", layout_path, layout_path, "copy_layout_common")
     ELSE pc' = "layout_os" /\ UNCHANGED <<stack, cur>>
  /\ UNCHANGED <<os, build, clean, common, ospkg, release, out0, out, dirs, exit,
                 failedAt, stdout>>

\* lines 103-104
LayoutOs ==
  /\ pc = "layout_os" \/ Returned("copy_layout_common")
  /\ IF LayoutOsPresent
     THEN Call("os", layout_path, layout_path, "copy_layout_os")
     ELSE pc' = "place" /\ UNCHANGED <<stack, cur>>
  /\ UNCHANGED <<os, build, clean, common, ospkg, release, out0, out, dirs, exit,
                 failedAt, stdout>>

\* none of the branches of lines 67 and 92 is taken
NoAssets ==
  /\ pc = "branch"
  /\ build \notin AssetBuilds
  /\ pc' = "place"
  /\ UNCHANGED <<os, build, clean, common, ospkg, release, out0, out, stack, cur,
                 dirs, exit, failedAt, stdout>>

---------------------------------------------------------------------------
(* Copy retrofe executable, lines 106-142. *)

AtPlace == pc = "place" \/ Returned("copy_layout_os")

\* the script ran to its end: status 0
Finish(fs, printed) ==
  /\ out' = fs
  /\ stdout' = printed
  /\ pc' = "exit"
  /\ exit' = "ok"
  /\ UNCHANGED <<stack, dirs, failedAt>>

\* core_path, line 113
core_path == <<"retrofe">>

\* dest_app, line 133
dest_app == <<"RetroFE.app">>

\* a variant that passes over a missing executable
CopyExe_missing_ignored(fs, dst) ==
  IF "exe" \notin release THEN Ok(fs)
  ELSE copy(ExeFile(os), ExeName(os), fs, dst)

\* shutil.copy(src_exe, dst), lines 120, 126 and 140: the source is opened first
CopyExe(fs, dst) ==
  IF "exe" \notin release THEN Raise("ENOENT", fs)
  ELSE copy(ExeFile(os), ExeName(os), fs, dst)

\* shutil.copytree(src, dst, symlinks=True, ignore_dangling_symlinks=True),
\* line 138, of a tree without symbolic links: dst must not exist
shutil_copytree(tree, fs, dst) ==
  IF exists(fs, dst) THEN Raise("EEXIST", fs)
  ELSE IF ~exists(fs, Parent(dst)) THEN Raise("ENOENT", fs)
  ELSE IF ~isdir(fs, Parent(dst)) THEN Raise("ENOTDIR", fs)
  ELSE Ok([q \in DOMAIN fs \cup { dst \o r : r \in DOMAIN tree } |->
             IF IsPrefix(dst, q) THEN tree[SubSeq(q, Len(dst) + 1, Len(q))] ELSE fs[q]])

\* lines 109-120
PlaceWindows ==
  /\ AtPlace
  /\ os = "windows"
  /\ IF build \in ExeBuilds
     THEN LET d == IF ~exists(out, core_path) THEN makedirs(out, core_path) ELSE Ok(out)
              r == IF d.err # "" THEN d ELSE CopyExe(d.fs, core_path)
          IN  IF r.err # "" THEN Fail(r.fs, "place") /\ UNCHANGED stdout
              ELSE Finish(r.fs, stdout)
     ELSE Finish(out, stdout)
  /\ UNCHANGED <<os, build, clean, common, ospkg, release, out0, cur>>

\* lines 123-126
PlaceLinux ==
  /\ AtPlace
  /\ os = "linux"
  /\ IF build \in ExeBuilds
     THEN LET r == CopyExe(out, Root)
          IN  IF r.err # "" THEN Fail(r.fs, "place") /\ UNCHANGED stdout
              ELSE Finish(r.fs, stdout)
     ELSE Finish(out, stdout)
  /\ UNCHANGED <<os, build, clean, common, ospkg, release, out0, cur>>

\* a variant that tests src_exe before src_app
mac_artifact_exe_first ==
  IF "exe" \in release THEN "exe" ELSE IF "app" \in release THEN "app" ELSE "none"

\* the chain of tests of lines 135, 139 and 141
mac_artifact ==
  IF "app" \in release THEN "app" ELSE IF "exe" \in release THEN "exe" ELSE "none"

\* lines 128-142
PlaceMac ==
  /\ AtPlace
  /\ os = "mac"
  /\ IF build \in ExeBuilds
     THEN IF mac_artifact = "app"
          THEN LET d == IF exists(out, dest_app) THEN rmtree(out, dest_app) ELSE Ok(out)
                   r == IF d.err # "" THEN d ELSE shutil_copytree(AppBundle, d.fs, dest_app)
               IN  IF r.err # "" THEN Fail(r.fs, "place") /\ UNCHANGED stdout
                   ELSE Finish(r.fs, stdout)
          ELSE IF mac_artifact = "exe"
          THEN LET r == CopyExe(out, Root)
               IN  IF r.err # "" THEN Fail(r.fs, "place") /\ UNCHANGED stdout
                   ELSE Finish(r.fs, stdout)
          ELSE Finish(out, TRUE)
     ELSE Finish(out, stdout)
  /\ UNCHANGED <<os, build, clean, common, ospkg, release, out0, cur>>

Next ==
  \/ Clean
  \/ EnsureOutput
  \/ FullCopyCommon
  \/ FullCopyOs
  \/ copytree
  \/ FullMamelist
  \/ FullListdir
  \/ FullScaffold
  \/ LayoutDest
  \/ LayoutCommon
  \/ LayoutOs
  \/ NoAssets
  \/ PlaceWindows
  \/ PlaceLinux
  \/ PlaceMac

Spec == Init /\ [][Next]_vars

---------------------------------------------------------------------------
(* Properties. *)

CopyPcs == {"copy_common", "copy_os", "copy_layout_common", "copy_layout_os"}

\* the path below the destination of the call cur that mirrors the source path p
Mirror(p) == cur.dst \o SubSeq(p, Len(cur.src) + 1, Len(p))

\* the entries of the source tree that the call cur covers
Covered == { p \in DOMAIN SrcTree(cur.tree) : IsPrefix(cur.src, p) }

\* no entry of fs holds the bytes of a compiled artifact
NoArtifact(fs) ==
  \A p \in DOMAIN fs : fs[p].kind = "file" => fs[p].bytes[1] \notin {"build", "app"}

\* C1: the output directory is deleted at the start of a run only when the
\* clean flag is set and the directory exists: past the clean step of a run
\* started without --clean every entry that existed before the run is still
\* there, and with --clean on an absent output directory the step changes
\* nothing.
C1_DeletedOnlyWhenCleanIsSet ==
  pc = "ensure" =>
    IF clean /\ exists(out0, Root) THEN out = Absent ELSE out = out0

\* C2: whenever an outermost copytree(src, dst) call has returned without
\* error, every file below src is a file with the same bytes at the same
\* relative path below dst, and every directory below src, the empty ones
\* included, is a directory at the same relative path below dst.
C2_CopyPreservesStructure ==
  \A at \in CopyPcs :
    Returned(at) =>
      \A p \in Covered :
        IF isfile(SrcTree(cur.tree), p)
        THEN exists(out, Mirror(p)) /\ out[Mirror(p)] = SrcTree(cur.tree)[p]
        ELSE isdir(out, Mirror(p))

\* the paths the loop of lines 89-90 is about to hand to mkdir_p
PendingScaffold ==
  { Join(collection_path, c) \o dirs_to_create[i] :
      c \in { d \in dirs : ~StartsWithUnderscore(d) }, i \in DOMAIN dirs_to_create }

\* C3: mkdir_p swallows only the directory-already-exists case: on a path
\* that is a directory it changes nothing and returns, on a path that is a
\* regular file or lies below one it raises, and whenever it returns the
\* path is a directory.
C3_MkdirPSwallowsOnlyExistingDirectory ==
  pc = "scaffold" =>
    \A p \in PendingScaffold :
      LET r == mkdir_p(out, p)
      IN  /\ isdir(out, p) => r = Ok(out)
          /\ isfile(out, p) => r.err # ""
          /\ r.err = "" => isdir(r.fs, p) /\ mkdir_p(r.fs, p) = Ok(r.fs)

\* C4: in every reachable state every entry of the output tree has all its
\* ancestors, as directories; and when copytree is about to copy a file,
\* the parent of the destination exists, and is a directory whenever the
\* copy succeeds.
C4_ParentsBeforeFiles ==
  /\ WellFormed(out)
  /\ stack # <<>> =>
       LET f == Head(stack)
           t == SrcTree(f.tree)
       IN  isfile(t, f.src) =>
             /\ f.dst # Root
             /\ exists(out, Parent(f.dst))
             /\ copyfile(t[f.src], out, f.dst).err = "" => isdir(out, Parent(f.dst))

C4_Witness ==
  /\ stack # <<>>
  /\ isfile(SrcTree(Head(stack).tree), Head(stack).src)
  /\ isfile(out, Parent(Head(stack).dst))
  /\ isfile(common, Parent(Head(stack).dst))
  /\ isdir(ospkg, Parent(Head(stack).dst))

\* the collections of the output tree that get scaffolding
Scaffolded(fs) ==
  { c \in listdir(fs, collection_path) :
      isdir(fs, Join(collection_path, c)) /\ ~StartsWithUnderscore(c) }

\* C5: after a successful full run every collection of the output whose
\* name does not start with '_' holds the five directories of
\* dirs_to_create, and meta/mamelist is a directory; and in no run does a
\* collection whose name starts with '_' get any of the five.
C5_ScaffoldingOfCollections ==
  /\ (build = "full" /\ exit = "ok") =>
       /\ isdir(out, <<"meta", "mamelist">>)
       /\ \A c \in Scaffolded(out) : \A i \in DOMAIN dirs_to_create :
            isdir(out, Join(collection_path, c) \o dirs_to_create[i])
  /\ \A c \in listdir(out, collection_path) : \A i \in DOMAIN dirs_to_create :
       StartsWithUnderscore(c) =>
         ~exists(out, Join(collection_path, c) \o dirs_to_create[i])

\* the statements of the full build that precede the placement step
AssetSteps == {"copy_common", "copy_os", "mamelist", "listdir", "scaffold"}

\* C6 as stated: with build full, core or engine, a missing executable on
\* windows or linux ends the run in an error with no executable placed;
\* on mac with neither RetroFE.app nor retrofe the run prints the error
\* line and ends with status 0, the output directory created and holding
\* no executable artifact.
C6_MissingArtifactFatalOnWindowsAndLinux ==
  (pc = "exit" /\ build \in ExeBuilds) =>
    /\ (os \in {"windows", "linux"} /\ "exe" \notin release) =>
         exit = "error" /\ NoArtifact(out)
    /\ (os = "mac" /\ release = {}) =>
         stdout /\ exit = "ok" /\ isdir(out, Root) /\ NoArtifact(out)

\* C6 amended: as C6, except that on mac the run prints the error line and
\* ends with status 0 only if it reaches the placement step: a full build
\* whose asset steps raised has already ended in an error, without the
\* line; the placement step itself never raises there.
C6_MissingArtifactFatalOnWindowsAndLinux_Amended ==
  (pc = "exit" /\ build \in ExeBuilds) =>
    /\ (os \in {"windows", "linux"} /\ "exe" \notin release) =>
         exit = "error" /\ NoArtifact(out)
    /\ (os = "mac" /\ release = {}) =>
         /\ isdir(out, Root)
         /\ NoArtifact(out)
         /\ IF failedAt \in AssetSteps
            THEN build = "full" /\ exit = "error" /\ ~stdout
            ELSE exit = "ok" /\ stdout

C6_Witness ==
  /\ pc = "exit"
  /\ os = "mac"
  /\ build = "full"
  /\ release = {}
  /\ exit = "ok"
  /\ stdout
  /\ isdir(out, <<"collections", "mario", "roms">>)

\* the asset tree holds an entry layouts
HasLayouts(tree) == layout_path \in DOMAIN tree

\* the part of an asset tree at and below layouts
Layouts(tree) == [p \in { q \in DOMAIN tree : IsPrefix(layout_path, q) } |-> tree[p]]

PlacementTarget ==
  IF os = "windows" THEN core_path
  ELSE IF os = "mac" /\ mac_artifact = "app" THEN dest_app
  ELSE <<"retrofe">>

ByPlacement(p) == IsPrefix(PlacementTarget, p)

\* C8: after a successful full build, apart from the paths the placement
\* step writes, every file of the OS asset tree is in the output with the
\* OS tree's bytes, and every file of the common tree at a path the OS tree
\* does not have is in the output with the common tree's bytes.
C8_OsAssetsOverCommon ==
  (build = "full" /\ exit = "ok") =>
    /\ \A p \in DOMAIN ospkg :
         (isfile(ospkg, p) /\ ~ByPlacement(p)) => exists(out, p) /\ out[p] = ospkg[p]
    /\ \A p \in DOMAIN common :
         (isfile(common, p) /\ p \notin DOMAIN ospkg /\ ~ByPlacement(p)) =>
           exists(out, p) /\ out[p] = common[p]

C8_Witness ==
  /\ build = "full"
  /\ exit = "ok"
  /\ \E p \in DOMAIN ospkg :
       isfile(ospkg, p) /\ isfile(common, p) /\ ~ByPlacement(p) /\ out[p] = ospkg[p]

\* the bare executable is in the output, where shutil.copy puts it
ExeCopied == isfile(out, <<"retrofe">>) /\ out[<<"retrofe">>] = ExeFile("mac")

\* C9 as stated: on mac with build full, core or engine, if RetroFE.app
\* exists then after the run output/RetroFE.app is an exact copy of it and
\* the bare executable was not copied; the bare executable is copied when,
\* and only when, the bundle is absent and the executable exists.
C9_MacPrefersBundle ==
  (pc = "exit" /\ os = "mac" /\ build \in ExeBuilds) =>
    /\ "app" \in release => Subtree(out, dest_app) = AppBundle /\ ~ExeCopied
    /\ ("app" \notin release /\ "exe" \in release) <=> ExeCopied

\* C9 amended: the same of a run that completes without error (a full
\* build may raise before the placement step, and rmtree raises when the
\* asset trees left a regular file RetroFE.app at the destination); in every run,
\* complete or not, the bare executable is in the output only if the
\* bundle is absent and the executable exists.
C9_MacPrefersBundle_Amended ==
  (os = "mac" /\ build \in ExeBuilds) =>
    /\ ExeCopied => ("app" \notin release /\ "exe" \in release)
    /\ exit = "ok" =>
         /\ "app" \in release => Subtree(out, dest_app) = AppBundle /\ ~ExeCopied
         /\ ("app" \notin release /\ "exe" \in release) => ExeCopied

C9_Witness ==
  /\ os = "mac"
  /\ build = "full"
  /\ exit = "ok"
  /\ release = {"app", "exe"}
  /\ exists(common, <<"RetroFE.app", "old">>)
  /\ Subtree(out, dest_app) = AppBundle

\* neither asset tree provides the directory collections
NoCollections == ~isdir(common, collection_path) /\ ~isdir(ospkg, collection_path)

\* C10 as stated: a full build whose asset trees provide no collections
\* directory fails at the enumeration of line 74, with the assets copied
\* and meta/mamelist created, and ends in an error with no executable
\* placed.
C10_FullNeedsCollections ==
  (pc = "exit" /\ build = "full" /\ NoCollections) =>
    /\ exit = "error"
    /\ failedAt = "listdir"
    /\ isdir(out, <<"meta", "mamelist">>)
    /\ \A p \in DOMAIN ospkg : isfile(ospkg, p) => exists(out, p) /\ out[p] = ospkg[p]
    /\ NoArtifact(out)

\* C10 amended: such a run always ends in an error, at the enumeration or
\* at an earlier asset step that raised itself (a copy onto an entry of the
\* other kind, meta being a regular file), and never reaches the placement
\* step; when it fails at the enumeration the assets are copied and
\* meta/mamelist is created.  A full build that succeeds has a collections
\* directory from one of the asset trees.
C10_FullNeedsCollections_Amended ==
  /\ (pc = "exit" /\ build = "full" /\ NoCollections) =>
       /\ exit = "error"
       /\ failedAt \in {"copy_common", "copy_os", "mamelist", "listdir"}
       /\ NoArtifact(out)
       /\ failedAt = "listdir" =>
            /\ isdir(out, <<"meta", "mamelist">>)
            /\ \A p \in DOMAIN ospkg :
                 isfile(ospkg, p) => exists(out, p) /\ out[p] = ospkg[p]
  /\ (build = "full" /\ exit = "ok") => ~NoCollections /\ isdir(out, collection_path)

C10_Witness ==
  /\ pc = "exit"
  /\ build = "full"
  /\ NoCollections
  /\ failedAt = "listdir"
  /\ release # {}
  /\ \E p \in DOMAIN common : isfile(common, p) /\ exists(out, p) /\ out[p] = common[p]

====
